---- MODULE Spec2Model ----
(***************************************************************************)
(* Pace-index calculator: the row resolvers of the three calculator pages  *)
(* (nearest match by race time, pace-index lookup, interpolation), the     *)
(* query-boundary time parser and the cell normalizers of the table        *)
(* builders.                                                               *)
(*                                                                         *)
(* JavaScript values are modelled as triples <<kind, n, d>>:               *)
(*   <<"num", n, d>>   the finite number n/d, in lowest terms, d > 0       *)
(*   <<"inf", s, 1>>   +Infinity (s = 1) or -Infinity (s = -1)             *)
(*   <<"nan", 0, 1>>   NaN                                                 *)
(*   <<"null", 0, 1>>  null            <<"undef", 0, 1>>  undefined        *)
(* Arithmetic is exact rational arithmetic with the IEEE rules for the     *)
(* non-finite values; the rounding error of binary floating point is not   *)
(* modelled.                                                               *)
(***************************************************************************)
EXTENDS Integers, Sequences, FiniteSets, TLC

VARIABLES paces, call, ret, page

vars == <<paces, call, ret, page>>

----------------------------------------------------------------------------
(* Bounds of the model *)

MaxRows == 3

MaxQuery == 12

MaxFields == 4

\* data rows of a sheet
MaxSheet == 2

----------------------------------------------------------------------------
(* JavaScript numbers *)

AbsInt(n) == IF n < 0 THEN -n ELSE n

RECURSIVE GCD(_, _)
GCD(a, b) == IF b = 0 THEN a ELSE GCD(b, a % b)

Rat(n, d) ==
  LET s == IF d < 0 THEN -1 ELSE 1
      g == GCD(AbsInt(n), AbsInt(d))
  IN  <<"num", (s * n) \div g, (s * d) \div g>>

N(n) == <<"num", n, 1>>

Null == <<"null", 0, 1>>

Undefined == <<"undef", 0, 1>>

NaN == <<"nan", 0, 1>>

Inf(s) == <<"inf", s, 1>>

Sign(n) == IF n < 0 THEN -1 ELSE 1

\* ToNumber: null is 0, undefined is NaN
ToNumber(v) ==
  CASE v[1] = "null"  -> N(0)
    [] v[1] = "undef" -> NaN
    [] OTHER          -> v

\* Number.isFinite: true of finite numbers only (no coercion: false of null)
IsFinite(v) == v[1] = "num"

\* Number.isNaN: true of the number NaN only
IsNaN(v) == v[1] = "nan"

\* v == null
IsNullish(v) == v[1] \in {"null", "undef"}

Neg(v) ==
  LET x == ToNumber(v)
  IN  CASE x[1] = "num" -> <<"num", -x[2], x[3]>>
        [] x[1] = "inf" -> Inf(-x[2])
        [] OTHER        -> NaN

Add(v, w) ==
  LET x == ToNumber(v)
      y == ToNumber(w)
  IN  CASE x[1] = "nan" \/ y[1] = "nan"   -> NaN
        [] x[1] = "inf" /\ y[1] = "inf"   -> IF x[2] = y[2] THEN x ELSE NaN
        [] x[1] = "inf"                   -> x
        [] y[1] = "inf"                   -> y
        [] OTHER -> Rat(x[2] * y[3] + y[2] * x[3], x[3] * y[3])

Sub(v, w) == Add(v, Neg(w))

Mul(v, w) ==
  LET x == ToNumber(v)
      y == ToNumber(w)
  IN  CASE x[1] = "nan" \/ y[1] = "nan" -> NaN
        [] x[1] = "inf" \/ y[1] = "inf" ->
             IF x[2] = 0 \/ y[2] = 0 THEN NaN ELSE Inf(Sign(x[2]) * Sign(y[2]))
        [] OTHER -> Rat(x[2] * y[2], x[3] * y[3])

\* the divisor 0 is +0 wherever the programs divide (a difference x - x)
Div(v, w) ==
  LET x == ToNumber(v)
      y == ToNumber(w)
  IN  CASE x[1] = "nan" \/ y[1] = "nan" -> NaN
        [] x[1] = "inf" /\ y[1] = "inf" -> NaN
        [] x[1] = "inf"                 -> Inf(x[2] * Sign(y[2]))
        [] y[1] = "inf"                 -> N(0)
        [] y[2] = 0 -> IF x[2] = 0 THEN NaN ELSE Inf(Sign(x[2]))
        [] OTHER    -> Rat(x[2] * y[3], x[3] * y[2])

\* Math.abs
MathAbs(v) ==
  LET x == ToNumber(v)
  IN  CASE x[1] = "num" -> <<"num", AbsInt(x[2]), x[3]>>
        [] x[1] = "inf" -> Inf(1)
        [] OTHER        -> NaN

\* v < w ; false when either side is NaN
Lt(v, w) ==
  LET x == ToNumber(v)
      y == ToNumber(w)
  IN  CASE x[1] = "nan" \/ y[1] = "nan" -> FALSE
        [] x[1] = "inf" /\ y[1] = "inf" -> x[2] < y[2]
        [] x[1] = "inf"                 -> x[2] < 0
        [] y[1] = "inf"                 -> y[2] > 0
        [] OTHER                        -> x[2] * y[3] < y[2] * x[3]

\* v <= w
Le(v, w) ==
  LET x == ToNumber(v)
      y == ToNumber(w)
  IN  x[1] # "nan" /\ y[1] # "nan" /\ ~Lt(y, x)

\* v >= w
Ge(v, w) == Le(w, v)

\* Math.round: the nearest integer, halves towards +Infinity
MathRound(v) ==
  LET x == ToNumber(v)
  IN  IF x[1] = "num" THEN N((2 * x[2] + x[3]) \div (2 * x[3])) ELSE x

\* v === w on numbers (NaN equals nothing)
StrictEq(v, w) == v[1] = w[1] /\ v[1] # "nan" /\ v = w

----------------------------------------------------------------------------
(* The table artifact data/paces.json *)

Distances == {"800", "mile", "2mile", "5k", "10k", "half", "marathon"}

MkRow(pi, p800, pMile, p2m, p5k, pHalf, pMar, base, c100) ==
  [ id        |-> 0,
    paceIndex |-> N(pi),
    pred      |-> [m800 |-> p800, mile |-> pMile, twoMile |-> p2m,
                   k5 |-> p5k, half |-> pHalf, marathon |-> pMar],
    pace      |-> [mile |-> N(base), twoMile |-> N(base + 8), k5 |-> N(base + 20)],
    cv        |-> [m100 |-> c100, m400 |-> N(base \div 4), m800 |-> N(base \div 2),
                   m1000 |-> N((base * 5) \div 8), m1200 |-> N((base * 3) \div 4)],
    speed2m   |-> [m100 |-> N(base \div 20), m200 |-> N(base \div 10),
                   m300 |-> N((base * 3) \div 20), m400 |-> N(base \div 5),
                   m600 |-> N((base * 3) \div 10)] ]

\* Rows as the builders write them: every time is a whole number of seconds
\* or null (an empty cell); the predictions are small so that the queries
\* 0 .. MaxQuery/2 cover them.
PoolRows ==
  { MkRow(30, N(5), N(6), N(6), N(3), N(5), N(6), 360, N(21)),
    MkRow(31, N(4), N(5), N(6), N(3), Null, N(5), 352, N(20)),
    MkRow(33, N(3), N(3), N(4), N(2), N(3), Null, 340, N(19)),
    MkRow(34, N(1), N(2), N(1), Null, N(1), N(2), 320, Null) }

\* the builders number the rows by position (id: i)
WithIds(rs) == [i \in 1..Len(rs) |-> [rs[i] EXCEPT !.id = i - 1]]

Tables == { WithIds(rs) : rs \in UNION { [1..n -> PoolRows] : n \in 0..MaxRows } }

\* query times: 0, 0.5, 1, ... MaxQuery/2 seconds
QueryTimes == { Rat(k, 2) : k \in 0..MaxQuery }

\* pace-index queries
QueryPIs == { Rat(k, 2) : k \in 58..70 }

----------------------------------------------------------------------------
(* Strings: sequences of one-character strings *)

Digits == {"0", "1", "2", "3", "4", "5", "6", "7", "8", "9"}

DigitValue(c) ==
  CASE c = "0" -> 0 [] c = "1" -> 1 [] c = "2" -> 2 [] c = "3" -> 3 [] c = "4" -> 4
    [] c = "5" -> 5 [] c = "6" -> 6 [] c = "7" -> 7 [] c = "8" -> 8 [] c = "9" -> 9

\* String.prototype.trim (the only white space of the model is " ")
RECURSIVE TrimStart(_)
TrimStart(s) == IF s # <<>> /\ Head(s) = " " THEN TrimStart(Tail(s)) ELSE s

RECURSIVE TrimEnd(_)
TrimEnd(s) ==
  IF s # <<>> /\ s[Len(s)] = " " THEN TrimEnd(SubSeq(s, 1, Len(s) - 1)) ELSE s

Trim(s) == TrimEnd(TrimStart(s))

\* index of the first c in s, 0 when there is none
RECURSIVE IndexOf(_, _, _)
IndexOf(s, c, i) ==
  IF i > Len(s) THEN 0 ELSE IF s[i] = c THEN i ELSE IndexOf(s, c, i + 1)

\* s.includes(":")
Includes(s, c) == IndexOf(s, c, 1) > 0

\* s.split(":") ; the empty string splits into one empty part
RECURSIVE Split(_)
Split(s) ==
  LET k == IndexOf(s, ":", 1)
  IN  IF k = 0 THEN <<s>>
      ELSE <<SubSeq(s, 1, k - 1)>> \o Split(SubSeq(s, k + 1, Len(s)))

AllDigits(s) == \A i \in 1..Len(s) : s[i] \in Digits

RECURSIVE DigitsToInt(_)
DigitsToInt(s) ==
  IF s = <<>> THEN 0
  ELSE 10 * DigitsToInt(SubSeq(s, 1, Len(s) - 1)) + DigitValue(s[Len(s)])

RECURSIVE Pow10(_)
Pow10(k) == IF k = 0 THEN 1 ELSE 10 * Pow10(k - 1)

\* the exponent part after "e": [+-] digits+ ; <<ok, value>>
ExponentOf(s) ==
  LET signed == s # <<>> /\ Head(s) \in {"+", "-"}
      ds     == IF signed THEN Tail(s) ELSE s
  IN  IF ds = <<>> \/ ~AllDigits(ds) THEN <<FALSE, 0>>
      ELSE <<TRUE, IF signed /\ Head(s) = "-" THEN -DigitsToInt(ds) ELSE DigitsToInt(ds)>>

\* m times ten to the k
Scale(m, k) == IF k >= 0 THEN Mul(m, N(Pow10(k))) ELSE Div(m, N(Pow10(-k)))

\* the decimal literal ip.fp of sign sgn with exponent ex = <<well-formed, k>>
Decimal(sgn, ip, fp, ex) ==
  IF ~ex[1] \/ ~AllDigits(ip) \/ ~AllDigits(fp) \/ Len(ip) + Len(fp) = 0 THEN NaN
  ELSE Scale(Rat(sgn * (DigitsToInt(ip) * Pow10(Len(fp)) + DigitsToInt(fp)),
                 Pow10(Len(fp))), ex[2])

\* the mantissa split at its decimal point (dot = 0: none)
Mantissa(sgn, mant, dot, ex) ==
  IF dot = 0 THEN Decimal(sgn, mant, <<>>, ex)
  ELSE Decimal(sgn, SubSeq(mant, 1, dot - 1), SubSeq(mant, dot + 1, Len(mant)), ex)

\* the unsigned literal split at its exponent mark (e = 0: none)
Unsigned(sgn, body, e) ==
  IF e = 0 THEN Mantissa(sgn, body, IndexOf(body, ".", 1), <<TRUE, 0>>)
  ELSE Mantissa(sgn, SubSeq(body, 1, e - 1), IndexOf(SubSeq(body, 1, e - 1), ".", 1),
                ExponentOf(SubSeq(body, e + 1, Len(body))))

\* the literal t without surrounding white space
NumericLiteral(t) ==
  IF t = <<>> THEN N(0)
  ELSE IF Head(t) = "-" THEN Unsigned(-1, Tail(t), IndexOf(Tail(t), "e", 1))
  ELSE IF Head(t) = "+" THEN Unsigned(1, Tail(t), IndexOf(Tail(t), "e", 1))
  ELSE Unsigned(1, t, IndexOf(t, "e", 1))

\* Number(s) for a string: StringNumericLiteral over the characters of the
\* model (digits, sign, decimal point, exponent); "" and blank strings are 0
Number(s) == NumericLiteral(Trim(s))

\* parts.map(Number) after parts.map((x) => x.trim())
NumberParts(parts) == [i \in 1..Len(parts) |-> Number(Trim(parts[i]))]

SomeNaN(nums) == \E i \in 1..Len(nums) : IsNaN(nums[i])

----------------------------------------------------------------------------
(* Results of a call *)

NoRow == [none |-> TRUE]

\* the call returned row r
Returned(r) == [status |-> "ok", val |-> r]

\* the call raised a TypeError (a property read on undefined)
Thrown == [status |-> "throw", val |-> NoRow]

NoCall == [fn |-> "idle", d |-> "5k", arg |-> N(0)]

NoRet == [status |-> "none", val |-> NoRow]

----------------------------------------------------------------------------
(* Predictions *)

\* Math.pow(2, 1.06) = 2.0849..., as the rational 2.085
Riegel == Rat(417, 200)

\* mutant: the 10k is twice the 5k
predict10kFrom5kSecondsLinear(pred5kSec) == Mul(pred5kSec, N(2))

predict10kFrom5kSeconds(pred5kSec) == Mul(pred5kSec, Riegel)

getPredictionSeconds(r, d) ==
  CASE d = "800"      -> r.pred.m800
    [] d = "mile"     -> r.pred.mile
    [] d = "2mile"    -> r.pred.twoMile
    [] d = "5k"       -> r.pred.k5
    [] d = "10k"      -> predict10kFrom5kSeconds(r.pred.k5)
    [] d = "half"     -> r.pred.half
    [] d = "marathon" -> r.pred.marathon

----------------------------------------------------------------------------
(* rows: the artifact sorted by pace index (Array.prototype.sort is stable) *)

RECURSIVE InsertByPaceIndex(_, _)
InsertByPaceIndex(sorted, r) ==
  IF sorted = <<>> THEN <<r>>
  ELSE IF Lt(r.paceIndex, sorted[Len(sorted)].paceIndex)
       THEN Append(InsertByPaceIndex(SubSeq(sorted, 1, Len(sorted) - 1), r),
                   sorted[Len(sorted)])
       ELSE Append(sorted, r)

RECURSIVE SortByPaceIndex(_)
SortByPaceIndex(rs) ==
  IF Len(rs) = 0 THEN <<>>
  ELSE InsertByPaceIndex(SortByPaceIndex(SubSeq(rs, 1, Len(rs) - 1)), rs[Len(rs)])

rows == SortByPaceIndex(paces)

----------------------------------------------------------------------------
(* Nearest match by race time *)

\* the for-of loop of findClosestRow, from element i on; best is an index
RECURSIVE findClosestRowLoop(_, _, _, _, _, _)
findClosestRowLoop(rs, d, inputSeconds, i, best, bestDiff) ==
  IF i > Len(rs) THEN best
  ELSE LET t    == getPredictionSeconds(rs[i], d)
           diff == MathAbs(Sub(t, inputSeconds))
       IN  IF ~IsFinite(t)
           THEN findClosestRowLoop(rs, d, inputSeconds, i + 1, best, bestDiff)
           ELSE IF Lt(diff, bestDiff)
                THEN findClosestRowLoop(rs, d, inputSeconds, i + 1, i, diff)
                ELSE findClosestRowLoop(rs, d, inputSeconds, i + 1, best, bestDiff)

\* first calculator page: scans the artifact as imported, skipping rows
\* whose prediction is not finite
findClosestRow(rs, d, inputSeconds) ==
  IF Len(rs) = 0 THEN Thrown
  ELSE Returned(rs[findClosestRowLoop(rs, d, inputSeconds, 1, 1,
                     MathAbs(Sub(getPredictionSeconds(rs[1], d), inputSeconds)))])

\* mutant: the comparison is inverted (> for <), keeping the farthest row
RECURSIVE findClosestRowByTimeLoopFarthest(_, _, _, _, _, _)
findClosestRowByTimeLoopFarthest(rs, d, inputSeconds, i, best, bestDiff) ==
  IF i > Len(rs) THEN best
  ELSE LET t    == getPredictionSeconds(rs[i], d)
           diff == MathAbs(Sub(t, inputSeconds))
       IN  IF Lt(bestDiff, diff)
           THEN findClosestRowByTimeLoopFarthest(rs, d, inputSeconds, i + 1, i, diff)
           ELSE findClosestRowByTimeLoopFarthest(rs, d, inputSeconds, i + 1, best, bestDiff)

RECURSIVE findClosestRowByTimeLoop(_, _, _, _, _, _)
findClosestRowByTimeLoop(rs, d, inputSeconds, i, best, bestDiff) ==
  IF i > Len(rs) THEN best
  ELSE LET t    == getPredictionSeconds(rs[i], d)
           diff == MathAbs(Sub(t, inputSeconds))
       IN  IF Lt(diff, bestDiff)
           THEN findClosestRowByTimeLoop(rs, d, inputSeconds, i + 1, i, diff)
           ELSE findClosestRowByTimeLoop(rs, d, inputSeconds, i + 1, best, bestDiff)

\* second calculator page: scans the sorted rows, no finiteness test
findClosestRowByTime(rs, d, inputSeconds) ==
  IF Len(rs) = 0 THEN Thrown
  ELSE Returned(rs[findClosestRowByTimeLoop(rs, d, inputSeconds, 1, 1,
                     MathAbs(Sub(getPredictionSeconds(rs[1], d), inputSeconds)))])

----------------------------------------------------------------------------
(* Pace-index lookup *)

\* mutant: a tie replaces the best row (<= for <), so the last tied row wins
RECURSIVE findRowByPILoopLastTie(_, _, _, _, _)
findRowByPILoopLastTie(rs, pi, i, best, bestDiff) ==
  IF i > Len(rs) THEN best
  ELSE LET diff == MathAbs(Sub(rs[i].paceIndex, pi))
       IN  IF Le(diff, bestDiff)
           THEN findRowByPILoopLastTie(rs, pi, i + 1, i, diff)
           ELSE findRowByPILoopLastTie(rs, pi, i + 1, best, bestDiff)

RECURSIVE findRowByPILoop(_, _, _, _, _)
findRowByPILoop(rs, pi, i, best, bestDiff) ==
  IF i > Len(rs) THEN best
  ELSE LET diff == MathAbs(Sub(rs[i].paceIndex, pi))
       IN  IF Lt(diff, bestDiff)
           THEN findRowByPILoop(rs, pi, i + 1, i, diff)
           ELSE findRowByPILoop(rs, pi, i + 1, best, bestDiff)

findRowByPI(rs, pi) ==
  LET hits == { i \in 1..Len(rs) : StrictEq(rs[i].paceIndex, pi) }
  IN  IF hits # {}
      THEN Returned(rs[CHOOSE i \in hits : \A j \in hits : i <= j])
      ELSE IF Len(rs) = 0 THEN Thrown
      ELSE Returned(rs[findRowByPILoop(rs, pi, 1, 1,
                         MathAbs(Sub(rs[1].paceIndex, pi)))])

----------------------------------------------------------------------------
(* Interpolation (third calculator page) *)

\* mutant: the blend starts from b instead of a
lerpFromB(a, b, t) == Add(b, Mul(Sub(b, a), t))

lerp(a, b, t) == Add(a, Mul(Sub(b, a), t))

blendRow(a, b, t) ==
  [ id        |-> -1,
    paceIndex |-> MathRound(lerp(a.paceIndex, b.paceIndex, t)),
    pred      |-> [m800     |-> MathRound(lerp(a.pred.m800, b.pred.m800, t)),
                   mile     |-> MathRound(lerp(a.pred.mile, b.pred.mile, t)),
                   twoMile  |-> MathRound(lerp(a.pred.twoMile, b.pred.twoMile, t)),
                   k5       |-> MathRound(lerp(a.pred.k5, b.pred.k5, t)),
                   half     |-> MathRound(lerp(a.pred.half, b.pred.half, t)),
                   marathon |-> MathRound(lerp(a.pred.marathon, b.pred.marathon, t))],
    pace      |-> [mile    |-> MathRound(lerp(a.pace.mile, b.pace.mile, t)),
                   twoMile |-> MathRound(lerp(a.pace.twoMile, b.pace.twoMile, t)),
                   k5      |-> MathRound(lerp(a.pace.k5, b.pace.k5, t))],
    cv        |-> [m100  |-> MathRound(lerp(a.cv.m100, b.cv.m100, t)),
                   m400  |-> MathRound(lerp(a.cv.m400, b.cv.m400, t)),
                   m800  |-> MathRound(lerp(a.cv.m800, b.cv.m800, t)),
                   m1000 |-> MathRound(lerp(a.cv.m1000, b.cv.m1000, t)),
                   m1200 |-> MathRound(lerp(a.cv.m1200, b.cv.m1200, t))],
    speed2m   |-> [m100 |-> MathRound(lerp(a.speed2m.m100, b.speed2m.m100, t)),
                   m200 |-> MathRound(lerp(a.speed2m.m200, b.speed2m.m200, t)),
                   m300 |-> MathRound(lerp(a.speed2m.m300, b.speed2m.m300, t)),
                   m400 |-> MathRound(lerp(a.speed2m.m400, b.speed2m.m400, t)),
                   m600 |-> MathRound(lerp(a.speed2m.m600, b.speed2m.m600, t))] ]

\* .map((r) => ({ r, t: getPredSeconds(r, d) })).filter((x) => Number.isFinite(x.t))
RECURSIVE finiteCandidates(_, _)
finiteCandidates(rs, d) ==
  IF Len(rs) = 0 THEN <<>>
  ELSE LET x == [r |-> rs[1], t |-> getPredictionSeconds(rs[1], d)]
           rest == finiteCandidates(SubSeq(rs, 2, Len(rs)), d)
       IN  IF IsFinite(x.t) THEN <<x>> \o rest ELSE rest

\* .sort((x, y) => x.t - y.t), stable
RECURSIVE InsertByT(_, _)
InsertByT(sorted, x) ==
  IF sorted = <<>> THEN <<x>>
  ELSE IF Lt(x.t, sorted[Len(sorted)].t)
       THEN Append(InsertByT(SubSeq(sorted, 1, Len(sorted) - 1), x), sorted[Len(sorted)])
       ELSE Append(sorted, x)

RECURSIVE SortByT(_)
SortByT(xs) ==
  IF Len(xs) = 0 THEN <<>>
  ELSE InsertByT(SortByT(SubSeq(xs, 1, Len(xs) - 1)), xs[Len(xs)])

candidateList(rs, d) == SortByT(finiteCandidates(rs, d))

\* mutant: the offset is measured from b instead of a
blendParameterFromB(a, b, inputSeconds) == Div(Sub(inputSeconds, b.t), Sub(b.t, a.t))

\* t = (inputSeconds - a.t) / (b.t - a.t)
blendParameter(a, b, inputSeconds) == Div(Sub(inputSeconds, a.t), Sub(b.t, a.t))

\* mutant: the loop tests the lower end of the pair only
bracketIndexLowerOnly(list, inputSeconds, i) ==
  IF i > Len(list) - 1 THEN 0
  ELSE IF Ge(inputSeconds, list[i].t) THEN i
  ELSE 0

\* the bracket loop, from index i on; 0 when no pair brackets the query
RECURSIVE bracketIndex(_, _, _)
bracketIndex(list, inputSeconds, i) ==
  IF i > Len(list) - 1 THEN 0
  ELSE IF Ge(inputSeconds, list[i].t) /\ Le(inputSeconds, list[i + 1].t) THEN i
  ELSE bracketIndex(list, inputSeconds, i + 1)

blendPair(a, b, inputSeconds) ==
  Returned(blendRow(a.r, b.r, blendParameter(a, b, inputSeconds)))

\* rs is the module-level rows; reading .t of a missing list element throws
pickInterpolatedRow(rs, d, inputSeconds) ==
  LET list == candidateList(rs, d)
      n    == Len(list)
  IN  IF n = 0 THEN Thrown
      ELSE IF Le(inputSeconds, list[1].t)
           THEN IF n < 2 THEN Thrown ELSE blendPair(list[1], list[2], inputSeconds)
      ELSE IF Ge(inputSeconds, list[n].t)
           THEN IF n < 2 THEN Thrown ELSE blendPair(list[n - 1], list[n], inputSeconds)
      ELSE LET i == bracketIndex(list, inputSeconds, 1)
           IN  IF i > 0 THEN blendPair(list[i], list[i + 1], inputSeconds)
               ELSE Returned(list[1].r)

----------------------------------------------------------------------------
(* Time strings: the query boundary and the builders' cell normalizers *)

\* a string value, and the cell values undefined and null
Str(s) == <<"str", s>>

UndefinedCell == <<"undef", <<>>>>

NullCell == <<"null", <<>>>>

\* the sum for two parts (minutes, seconds) or three (hours, minutes, seconds)
secondsOfHms(nums) ==
  IF SomeNaN(nums) THEN Null
  ELSE IF Len(nums) = 2 THEN Add(Mul(nums[1], N(60)), nums[2])
  ELSE IF Len(nums) = 3
       THEN Add(Add(Mul(nums[1], N(3600)), Mul(nums[2], N(60))), nums[3])
  ELSE Null

\* the same sum under Math.round
roundedSecondsOfHms(nums) ==
  IF SomeNaN(nums) THEN Null
  ELSE IF Len(nums) = 2 THEN MathRound(Add(Mul(nums[1], N(60)), nums[2]))
  ELSE IF Len(nums) = 3
       THEN MathRound(Add(Add(Mul(nums[1], N(3600)), Mul(nums[2], N(60))), nums[3]))
  ELSE Null

\* the sum for two parts (minutes, seconds) or three (minutes, seconds, hundredths)
secondsOfMsCs(nums) ==
  IF SomeNaN(nums) THEN Null
  ELSE IF Len(nums) = 2 THEN Add(Mul(nums[1], N(60)), nums[2])
  ELSE IF Len(nums) = 3
       THEN Add(Add(Mul(nums[1], N(60)), nums[2]), Div(nums[3], N(100)))
  ELSE Null

\* mutant sum: two parts are hours and minutes
secondsOfHm(nums) ==
  IF SomeNaN(nums) THEN Null
  ELSE IF Len(nums) = 2 THEN Add(Mul(nums[1], N(3600)), Mul(nums[2], N(60)))
  ELSE IF Len(nums) = 3
       THEN Add(Add(Mul(nums[1], N(60)), nums[2]), Div(nums[3], N(100)))
  ELSE Null

\* parseTimeToSeconds of the first calculator page: no rounding
parseTimeToSeconds(input) ==
  LET s == Trim(input[2])
  IN  IF s = <<>> THEN Null ELSE secondsOfHms(NumberParts(Split(s)))

\* parseTimeToSeconds of the second and third pages: Math.round of the sum
parseTimeToSecondsRounded(input) ==
  LET t == Trim(input[2])
  IN  IF t = <<>> THEN Null ELSE roundedSecondsOfHms(NumberParts(Split(t)))

\* the numeric fallback of both normalizers: Excel day fraction or decimal minutes
fallbackSeconds(num) ==
  IF IsNaN(num) THEN Null
  ELSE IF Lt(N(0), num) /\ Lt(num, N(1)) THEN Mul(num, N(86400))
  ELSE Mul(num, N(60))

numericFallback(s) == fallbackSeconds(Number(s))

\* mutant: a two-part cell is read as hours:minutes
parseMsCsToSecondsAsHm(v) ==
  LET s == Trim(v[2])
  IN  IF v[1] # "str" THEN Null
      ELSE IF s = <<>> THEN Null
      ELSE IF Includes(s, ":") THEN secondsOfHm(NumberParts(Split(s)))
      ELSE numericFallback(s)

\* mutant: a three-part cell is read as hours:minutes:seconds
parseMsCsToSecondsAsHms(v) ==
  LET s == Trim(v[2])
  IN  IF v[1] # "str" THEN Null
      ELSE IF s = <<>> THEN Null
      ELSE IF Includes(s, ":") THEN secondsOfHms(NumberParts(Split(s)))
      ELSE numericFallback(s)

\* mm:ss or mm:ss:cc (hundredths of a second)
parseMsCsToSeconds(v) ==
  LET s == Trim(v[2])
  IN  IF v[1] # "str" THEN Null
      ELSE IF s = <<>> THEN Null
      ELSE IF Includes(s, ":") THEN secondsOfMsCs(NumberParts(Split(s)))
      ELSE numericFallback(s)

\* mutant: a three-part cell of the half and marathon columns is read as
\* minutes:seconds:hundredths
parseHmsToSecondsAsMsCs(v) ==
  LET s == Trim(v[2])
  IN  IF v[1] # "str" THEN Null
      ELSE IF s = <<>> THEN Null
      ELSE IF Includes(s, ":") THEN secondsOfMsCs(NumberParts(Split(s)))
      ELSE numericFallback(s)

\* h:mm:ss, or mm:ss for two parts
parseHmsToSeconds(v) ==
  LET s == Trim(v[2])
  IN  IF v[1] # "str" THEN Null
      ELSE IF s = <<>> THEN Null
      ELSE IF Includes(s, ":") THEN secondsOfHms(NumberParts(Split(s)))
      ELSE numericFallback(s)

\* the parts a time string is made of: empty, digits (one with a leading
\* zero), a decimal, a signed number, an exponent, padded digits, a word
FieldPool ==
  { <<>>, <<"5">>, <<"0", "5">>, <<"1", "8">>, <<"1", ".", "5">>, <<"-", "1">>,
    <<"1", "e", "1">>, <<" ", "7", " ">>, <<"a">> }

RECURSIVE JoinParts(_)
JoinParts(fs) ==
  IF Len(fs) = 0 THEN <<>>
  ELSE IF Len(fs) = 1 THEN fs[1]
  ELSE fs[1] \o <<":">> \o JoinParts(SubSeq(fs, 2, Len(fs)))

\* one to MaxFields parts; the time strings are these joined by colons
PartLists == UNION { [1..n -> FieldPool] : n \in 1..MaxFields }

InitParse ==
  /\ paces = <<>>
  /\ call = NoCall
  /\ ret = NoRet
  /\ page = 0

\* a string of parts fs joined by colons, handed to parser fn; the call
\* records the parts the string was made of
ParseCall(fn, fs) == [fn |-> fn, d |-> "5k", arg |-> Str(JoinParts(fs)), parts |-> fs]

ParseTimeToSeconds ==
  /\ call.fn = "idle"
  /\ \E fs \in PartLists :
       /\ call' = ParseCall("parseTimeToSeconds", fs)
       /\ ret' = Returned(parseTimeToSeconds(Str(JoinParts(fs))))
  /\ UNCHANGED <<paces, page>>

ParseTimeToSecondsRounded ==
  /\ call.fn = "idle"
  /\ \E fs \in PartLists :
       /\ call' = ParseCall("parseTimeToSecondsRounded", fs)
       /\ ret' = Returned(parseTimeToSecondsRounded(Str(JoinParts(fs))))
  /\ UNCHANGED <<paces, page>>

ParseMsCsToSeconds ==
  /\ call.fn = "idle"
  /\ \/ \E fs \in PartLists :
          /\ call' = ParseCall("parseMsCsToSeconds", fs)
          /\ ret' = Returned(parseMsCsToSeconds(Str(JoinParts(fs))))
     \/ \E v \in {UndefinedCell, NullCell} :
          /\ call' = [fn |-> "parseMsCsToSeconds", d |-> "5k", arg |-> v, parts |-> <<>>]
          /\ ret' = Returned(parseMsCsToSeconds(v))
  /\ UNCHANGED <<paces, page>>

ParseHmsToSeconds ==
  /\ call.fn = "idle"
  /\ \/ \E fs \in PartLists :
          /\ call' = ParseCall("parseHmsToSeconds", fs)
          /\ ret' = Returned(parseHmsToSeconds(Str(JoinParts(fs))))
     \/ \E v \in {UndefinedCell, NullCell} :
          /\ call' = [fn |-> "parseHmsToSeconds", d |-> "5k", arg |-> v, parts |-> <<>>]
          /\ ret' = Returned(parseHmsToSeconds(v))
  /\ UNCHANGED <<paces, page>>

----------------------------------------------------------------------------
(* The builders: sheet rows to data/paces.json *)

\* Math.round of the seconds; null and undefined stay null
whole(sec) == IF IsNullish(sec) THEN Null ELSE MathRound(sec)

\* r[k]; a row shorter than k has no such cell
Cell(r, k) == IF k \in DOMAIN r THEN r[k] ELSE UndefinedCell

\* String(v)
StringOf(v) ==
  IF v[1] = "str" THEN v[2]
  ELSE IF v[1] = "null" THEN <<"n", "u", "l", "l">>
  ELSE <<"u", "n", "d", "e", "f", "i", "n", "e", "d">>

\* v ?? ""
OrEmpty(v) == IF v[1] \in {"null", "undef"} THEN Str(<<>>) ELSE v

\* whole(parseMsCsToSeconds(r[k])) and whole(parseHmsToSeconds(r[k]))
msCs(r, k) == whole(parseMsCsToSeconds(Cell(r, k)))

hms(r, k) == whole(parseHmsToSeconds(Cell(r, k)))

\* `PI ${paceIndex}`
Label(paceIndex) == <<"PI", paceIndex>>

\* .filter(Boolean): the rows the map did not turn into null
Truthy(xs) == SelectSeq(xs, LAMBDA x : x # NoRow)

\* the VDOT builder keeps the sheet rows with a positive number in column L
positiveFinite(v) == IsFinite(v) /\ Lt(N(0), v)

vdotRows(all) ==
  SelectSeq(all, LAMBDA r : positiveFinite(Number(Trim(StringOf(OrEmpty(Cell(r, 11)))))))

vdotRecord(r, i, paceIndex) ==
  IF ~IsFinite(paceIndex) THEN NoRow
  ELSE [ id        |-> i,
         paceIndex |-> paceIndex,
         label     |-> Label(paceIndex),
         pred      |-> [m800 |-> msCs(r, 2), mile |-> msCs(r, 3), twoMile |-> msCs(r, 4),
                        k5 |-> msCs(r, 5), half |-> hms(r, 6), marathon |-> hms(r, 7)],
         pace      |-> [mile |-> msCs(r, 8), twoMile |-> msCs(r, 9), k5 |-> msCs(r, 10)],
         cv        |-> [m100 |-> msCs(r, 32), m400 |-> msCs(r, 31), m800 |-> msCs(r, 30),
                        m1000 |-> msCs(r, 29), m1200 |-> msCs(r, 28)],
         speed2m   |-> [m100 |-> msCs(r, 37), m200 |-> msCs(r, 36), m300 |-> msCs(r, 35),
                        m400 |-> msCs(r, 34), m600 |-> msCs(r, 33)] ]

vdotMap(rs) ==
  [i \in 1..Len(rs) |-> vdotRecord(rs[i], i - 1, Number(Trim(StringOf(Cell(rs[i], 11)))))]

\* the rows written by the VDOT builder
buildVdot(all) ==
  SelectSeq(Truthy(vdotMap(vdotRows(all))),
            LAMBDA x : IsFinite(x.pred.k5) /\ IsFinite(x.pace.k5))

\* the Pace Overview builder skips three heading rows and keeps the rows
\* with some text in column A
overviewRows(all) ==
  SelectSeq(SubSeq(all, 4, Len(all)),
            LAMBDA r : Trim(StringOf(OrEmpty(Cell(r, 0)))) # <<>>)

\* cv100 = cv400 != null ? Math.round(cv400 / 4) : null
quarter(cv400) == IF IsNullish(cv400) THEN Null ELSE MathRound(Div(cv400, N(4)))

overviewRecord(r, i, paceIndex) ==
  IF ~IsFinite(paceIndex) THEN NoRow
  ELSE [ id            |-> i,
         paceIndex     |-> paceIndex,
         label         |-> Label(paceIndex),
         pred          |-> [m800 |-> msCs(r, 1), mile |-> msCs(r, 2), twoMile |-> msCs(r, 3),
                            k5 |-> msCs(r, 4), half |-> hms(r, 5), marathon |-> hms(r, 6)],
         pace          |-> [mile |-> msCs(r, 7), twoMile |-> msCs(r, 8), k5 |-> msCs(r, 9)],
         thresholdPace |-> msCs(r, 19),
         fivekRepeats  |-> [m1600 |-> msCs(r, 26), m1200 |-> msCs(r, 27),
                            m1000 |-> msCs(r, 28), m800 |-> msCs(r, 29),
                            m400 |-> msCs(r, 30), m100 |-> msCs(r, 31)],
         cv            |-> [m100 |-> quarter(msCs(r, 21)), m400 |-> msCs(r, 21),
                            m800 |-> msCs(r, 22), m1000 |-> msCs(r, 23),
                            m1200 |-> msCs(r, 24), m1600 |-> msCs(r, 25)],
         speed2m       |-> [m600 |-> msCs(r, 32), m400 |-> msCs(r, 33), m300 |-> msCs(r, 34),
                            m200 |-> msCs(r, 35), m100 |-> msCs(r, 36)] ]

overviewMap(rs) ==
  [i \in 1..Len(rs) |-> overviewRecord(rs[i], i - 1, Number(Trim(StringOf(Cell(rs[i], 0)))))]

\* the rows written by the Pace Overview builder
buildOverview(all) ==
  SelectSeq(Truthy(overviewMap(overviewRows(all))),
            LAMBDA x : Le(N(30), x.paceIndex) /\ Le(x.paceIndex, N(73)))

\* the texts of the index column: a pace index in 30..73 and one outside,
\* a fraction, a word, nothing
IndexCells ==
  { Str(<<"3", "0">>), Str(<<"3", "0", ".", "5">>), Str(<<"7", "4">>),
    Str(<<"a", "b", "c">>), Str(<<>>) }

\* the parts of the time cells: nothing, h:mm:ss, a negative time, forty
\* minutes
CellParts ==
  { << <<>> >>, << <<"1">>, <<"2", "2">>, <<"5", "9">> >>,
    << <<"-", "1">>, <<"3", "0">> >>, << <<"4", "0">>, <<"0", "0">> >> }

\* the time cells
TimeCells == { Str(JoinParts(fs)) : fs \in CellParts }

\* a 5k cell with a time, and the rows that lack the 5k prediction or the
\* 5k pace
FiveK == Str(<<"1", "8", ":", "0", "5">>)

FiveKCells == { <<Str(<<>>), FiveK>>, <<FiveK, Str(<<>>)>> }

\* the cell of the column headed Threshold Pace
ThresholdCell == Str(<<"5", ":", "4", "9">>)

\* a sheet row of 38 columns: the index in column ix, the 5k prediction in
\* column c5, the 5k pace in column c9, the threshold pace in column 13, one
\* text in the other columns
SheetRow(ix, c5, c9, index, k5, p5, other) ==
  [k \in 0..37 |-> IF k = ix THEN index ELSE IF k = c5 THEN k5
                   ELSE IF k = c9 THEN p5
                   ELSE IF k = 13 THEN ThresholdCell ELSE other]

\* sheet rows: every index text over well-filled cells, every time cell
\* under index 30, and the rows that lack a 5k cell
RowPool(ix, c5, c9) ==
  { SheetRow(ix, c5, c9, index, FiveK, FiveK, Str(<<"1", ":", "2", "2", ":", "5", "9">>))
      : index \in IndexCells }
  \cup { SheetRow(ix, c5, c9, Str(<<"3", "0">>), FiveK, FiveK, other) : other \in TimeCells }
  \cup { SheetRow(ix, c5, c9, Str(<<"3", "0">>), kp[1], kp[2],
                  Str(<<"1", ":", "2", "2", ":", "5", "9">>)) : kp \in FiveKCells }

SheetsOf(pool) == UNION { [1..n -> pool] : n \in 0..MaxSheet }

\* the VDOT sheet has no heading rows the builder must skip
VdotSheets == SheetsOf(RowPool(11, 5, 10))

\* the Pace Overview sheet: a blank row, the section labels, the headers,
\* then the data
Headings ==
  << [k \in 0..37 |-> Str(<<>>)], [k \in 0..37 |-> Str(<<"a">>)],
     [k \in 0..37 |-> Str(<<"b">>)] >>

OverviewSheets == { Headings \o data : data \in SheetsOf(RowPool(0, 4, 9)) }

BuildCall(fn, all) == [fn |-> fn, d |-> "5k", arg |-> all, parts |-> <<>>]

BuildVdot ==
  /\ call.fn = "idle"
  /\ \E all \in VdotSheets :
       /\ call' = BuildCall("buildVdot", all)
       /\ ret' = Returned(buildVdot(all))
  /\ UNCHANGED <<paces, page>>

BuildOverview ==
  /\ call.fn = "idle"
  /\ \E all \in OverviewSheets :
       /\ call' = BuildCall("buildOverview", all)
       /\ ret' = Returned(buildOverview(all))
  /\ UNCHANGED <<paces, page>>

----------------------------------------------------------------------------
(* The resolvers as operations on the table *)

InitResolve ==
  /\ paces \in Tables
  /\ call = NoCall
  /\ ret = NoRet
  /\ page = 0

FindClosestRow ==
  /\ call.fn = "idle"
  /\ \E d \in Distances, q \in QueryTimes :
       /\ call' = [fn |-> "findClosestRow", d |-> d, arg |-> q]
       /\ ret' = findClosestRow(paces, d, q)
  /\ UNCHANGED <<paces, page>>

FindClosestRowByTime ==
  /\ call.fn = "idle"
  /\ \E d \in Distances, q \in QueryTimes :
       /\ call' = [fn |-> "findClosestRowByTime", d |-> d, arg |-> q]
       /\ ret' = findClosestRowByTime(rows, d, q)
  /\ UNCHANGED <<paces, page>>

FindRowByPI ==
  /\ call.fn = "idle"
  /\ \E pi \in QueryPIs :
       /\ call' = [fn |-> "findRowByPI", d |-> "5k", arg |-> pi]
       /\ ret' = findRowByPI(rows, pi)
  /\ UNCHANGED <<paces, page>>

PickInterpolatedRow ==
  /\ call.fn = "idle"
  /\ \E d \in Distances, q \in QueryTimes :
       /\ call' = [fn |-> "pickInterpolatedRow", d |-> d, arg |-> q]
       /\ ret' = pickInterpolatedRow(rows, d, q)
  /\ UNCHANGED <<paces, page>>

\* the call is over; the table is as it was
Return ==
  /\ call.fn # "idle"
  /\ call' = NoCall
  /\ ret' = NoRet
  /\ UNCHANGED <<paces, page>>

NextResolve ==
  \/ FindClosestRow
  \/ FindClosestRowByTime
  \/ FindRowByPI
  \/ PickInterpolatedRow
  \/ Return

SpecResolve == InitResolve /\ [][NextResolve]_vars

NextParse ==
  \/ BuildVdot
  \/ BuildOverview
  \/ ParseTimeToSeconds
  \/ ParseTimeToSecondsRounded
  \/ ParseMsCsToSeconds
  \/ ParseHmsToSeconds
  \/ Return

SpecParse == InitParse /\ [][NextParse]_vars

----------------------------------------------------------------------------
(* The second calculator page: input state and the selected row *)

\* no row is selected
NoSelection == [status |-> "null", val |-> NoRow]

\* the pace-index branch: pi = Number(piStr)
selectedByPI(rs, pi) == IF ~IsFinite(pi) THEN NoSelection ELSE findRowByPI(rs, pi)

\* the time branch: sec = parseTimeToSeconds(timeStr)
selectedByTime(rs, distance, sec) ==
  IF IsNullish(sec) THEN NoSelection ELSE findClosestRowByTime(rs, distance, sec)

\* the useMemo body of selected
selected(rs, inputMode, piStr, distance, timeStr) ==
  IF inputMode = "pi" THEN selectedByPI(rs, Number(piStr))
  ELSE selectedByTime(rs, distance, parseTimeToSecondsRounded(Str(timeStr)))

\* texts typed into the time field
TimeTexts ==
  { <<>>, <<" ">>, <<"a", "b", "c">>, <<"0", ":", "0", "3">>, <<"5", ":">> }

\* texts typed into the pace-index field
PiTexts ==
  { <<"6", "1">>, <<>>, <<" ">>, <<"a", "b", "c">>, <<"3", "1">> }

\* artifacts of one to MaxRows consecutive rows of the sheet, in sheet order
PageTables ==
  { t \in Tables :
      /\ Len(t) >= 1
      /\ \A i \in 1..(Len(t) - 1) :
           /\ Lt(t[i].paceIndex, t[i + 1].paceIndex)
           /\ ~\E r \in PoolRows : /\ Lt(t[i].paceIndex, r.paceIndex)
                                   /\ Lt(r.paceIndex, t[i + 1].paceIndex) }

Render(inputMode, distance, timeStr, piStr) ==
  [ inputMode |-> inputMode, distance |-> distance, timeStr |-> timeStr,
    piStr |-> piStr,
    selected |-> selected(rows, inputMode, piStr, distance, timeStr) ]

\* useState defaults: time mode, 5k, empty time text, pace index "61"
InitPage ==
  /\ paces \in PageTables
  /\ call = NoCall
  /\ ret = NoRet
  /\ page = Render("time", "5k", <<>>, <<"6", "1">>)

SetInputMode ==
  /\ \E m \in {"time", "pi"} :
       page' = Render(m, page.distance, page.timeStr, page.piStr)
  /\ UNCHANGED <<paces, call, ret>>

SetDistance ==
  /\ \E d \in Distances :
       page' = Render(page.inputMode, d, page.timeStr, page.piStr)
  /\ UNCHANGED <<paces, call, ret>>

SetTimeStr ==
  /\ \E s \in TimeTexts :
       page' = Render(page.inputMode, page.distance, s, page.piStr)
  /\ UNCHANGED <<paces, call, ret>>

SetPiStr ==
  /\ \E s \in PiTexts :
       page' = Render(page.inputMode, page.distance, page.timeStr, s)
  /\ UNCHANGED <<paces, call, ret>>

NextPage ==
  \/ SetInputMode
  \/ SetDistance
  \/ SetTimeStr
  \/ SetPiStr

SpecPage == InitPage /\ [][NextPage]_vars

----------------------------------------------------------------------------
(* The derived training paces of the three calculator pages *)

DigitChars == <<"0", "1", "2", "3", "4", "5", "6", "7", "8", "9">>

\* String(n) for an integer n
RECURSIVE NatToChars(_)
NatToChars(n) ==
  IF n < 10 THEN <<DigitChars[n + 1]>>
  ELSE NatToChars(n \div 10) \o <<DigitChars[(n % 10) + 1]>>

IntToChars(n) == IF n < 0 THEN <<"-">> \o NatToChars(-n) ELSE NatToChars(n)

\* s.padStart(2, "0")
PadStart2(s) == IF Len(s) < 2 THEN <<"0">> \o s ELSE s

\* a % b of JavaScript for integers: the sign of a
JsRem(a, b) == IF a >= 0 THEN a % b ELSE -((-a) % b)

\* `${mm}:${ss.padStart(2, "0")}` for whole seconds s >= 0
MinutesSeconds(s) == IntToChars(s \div 60) \o <<":">> \o PadStart2(IntToChars(s % 60))

\* formatPaceSeconds of the second page and formatPace of the third:
\* Math.max(0, Math.round(secPerMile)) as m:ss
formatPaceOfRounded(x) ==
  IF x[1] = "num" THEN MinutesSeconds(IF x[2] < 0 THEN 0 ELSE x[2])
  ELSE IF x[1] = "inf" /\ x[2] < 0 THEN MinutesSeconds(0)
  ELSE IF x[1] = "inf" THEN <<"I", "n", "f", "i", "n", "i", "t", "y", ":", "N", "a", "N">>
  ELSE <<"N", "a", "N", ":", "N", "a", "N">>

formatPaceSeconds(secPerMile) == formatPaceOfRounded(MathRound(secPerMile))

\* formatSeconds of the first page for the whole seconds s
formatWholeSeconds(s) ==
  IF s \div 3600 > 0
  THEN IntToChars(s \div 3600) \o <<":">>
         \o PadStart2(IntToChars(JsRem(s, 3600) \div 60)) \o <<":">>
         \o PadStart2(IntToChars(JsRem(s, 60)))
  ELSE IntToChars(JsRem(s, 3600) \div 60) \o <<":">> \o PadStart2(IntToChars(JsRem(s, 60)))

formatSeconds(totalSeconds) ==
  IF ~IsFinite(totalSeconds) THEN <<"-">>
  ELSE formatWholeSeconds(MathRound(totalSeconds)[2])

\* formatRaceTimeSeconds of the second page and formatRaceTime of the third
\* for the rounded seconds x: Math.max(0, x) as m:ss, or h:mm:ss from an hour
formatRaceTimeOfRounded(x) ==
  IF x[1] = "num" /\ x[2] >= 3600
  THEN IntToChars(x[2] \div 3600) \o <<":">>
         \o PadStart2(IntToChars((x[2] % 3600) \div 60)) \o <<":">>
         \o PadStart2(IntToChars(x[2] % 60))
  ELSE IF x[1] = "inf" /\ x[2] > 0
  THEN <<"I", "n", "f", "i", "n", "i", "t", "y", ":", "N", "a", "N", ":", "N", "a", "N">>
  ELSE formatPaceOfRounded(x)

formatRaceTimeSeconds(totalSeconds) == formatRaceTimeOfRounded(MathRound(totalSeconds))

\* the rules of the first and third pages
recoveryPace(pace5k) == Add(pace5k, N(110))

steadyRange(pace5k) == [low |-> Add(pace5k, N(60)), high |-> Add(pace5k, N(75))]

thresholdSplits(milePace) ==
  [pace |-> milePace, m400 |-> Div(milePace, N(4)), m100 |-> Div(milePace, N(16))]

powerRunPace(twoMilePace) == Add(twoMilePace, N(30))

\* mutant: recovery is ten seconds slower
recoveryPaceFrom5kPaceSlow(k5Pace) == Add(k5Pace, N(120))

\* the rules of the second page
recoveryPaceFrom5kPace(k5Pace) == Add(k5Pace, N(110))

steadyRangeFrom5kPace(k5Pace) == [low |-> Add(k5Pace, N(60)), high |-> Add(k5Pace, N(75))]

powerRunPaceFrom2milePace(twoMilePace) == Add(twoMilePace, N(30))

\* 1609.344 m
MetersPerMile == Rat(201168, 125)

splitFromMilePace(secPerMile, meters) == Mul(Div(secPerMile, MetersPerMile), N(meters))

\* selected.thresholdPace; undefined in a row without the field
thresholdPaceOf(r) == IF "thresholdPace" \in DOMAIN r THEN r.thresholdPace ELSE Undefined

\* a ?? b
Coalesce(a, b) == IF IsNullish(a) THEN b ELSE a

thresholdOfPace(thrPace) ==
  [pace |-> thrPace, m400 |-> splitFromMilePace(thrPace, 400),
   m100 |-> splitFromMilePace(thrPace, 100)]

\* selected.cv[f]; undefined in a row without the field
cvOf(sel, f) == IF f \in DOMAIN sel.cv THEN sel.cv[f] ELSE Undefined

\* selected.cv.m1200 * (1600 / 1200)
cv1600From1200(sel) == Mul(sel.cv.m1200, Div(N(1600), N(1200)))

\* selected.cv.m100 ?? Math.round(selected.cv.m400 / 4)
cv100OrQuarter(sel) == Coalesce(cvOf(sel, "m100"), MathRound(Div(sel.cv.m400, N(4))))

\* [100, 400, 800, 1000, 1200, 1600].map((m) => splitFromMilePace(pace.k5, m))
fivekComputed(k5Pace) ==
  [m100  |-> splitFromMilePace(k5Pace, 100),  m400  |-> splitFromMilePace(k5Pace, 400),
   m800  |-> splitFromMilePace(k5Pace, 800),  m1000 |-> splitFromMilePace(k5Pace, 1000),
   m1200 |-> splitFromMilePace(k5Pace, 1200), m1600 |-> splitFromMilePace(k5Pace, 1600)]

\* mutant: the chart's repeats are ignored
fivekRowsComputed(sel) == fivekComputed(sel.pace.k5)

\* selected.fivekRepeats ? the chart's repeats : the computed ones
fivekRows(sel) ==
  IF "fivekRepeats" \in DOMAIN sel THEN sel.fivekRepeats ELSE fivekComputed(sel.pace.k5)

\* the texts shown for a group of times
TextsFirst(group) == [f \in DOMAIN group |-> formatSeconds(group[f])]

TextsLater(group) == [f \in DOMAIN group |-> formatRaceTimeSeconds(group[f])]

\* the content of the first page for the selected row
content1(sel) ==
  [ selected |-> sel,
    rec      |-> recoveryPace(sel.pace.k5),
    steady   |-> steadyRange(sel.pace.k5),
    thr      |-> thresholdSplits(sel.pace.mile),
    power    |-> powerRunPace(sel.pace.twoMile),
    pred10k  |-> predict10kFrom5kSeconds(sel.pred.k5),
    recText  |-> formatSeconds(recoveryPace(sel.pace.k5)),
    cvText   |-> TextsFirst([m100 |-> sel.cv.m100, m1600 |-> cv1600From1200(sel)]),
    fivek    |-> TextsFirst(fivekComputed(sel.pace.k5)) ]

\* the content of the second page
content2(sel) ==
  [ selected |-> sel,
    rec      |-> recoveryPaceFrom5kPace(sel.pace.k5),
    steady   |-> steadyRangeFrom5kPace(sel.pace.k5),
    thr      |-> thresholdOfPace(Coalesce(thresholdPaceOf(sel), sel.pace.mile)),
    power    |-> powerRunPaceFrom2milePace(sel.pace.twoMile),
    pred10k  |-> predict10kFrom5kSeconds(sel.pred.k5),
    recText  |-> formatPaceSeconds(recoveryPaceFrom5kPace(sel.pace.k5)),
    cvText   |-> TextsLater([m100 |-> cv100OrQuarter(sel), m1600 |-> cvOf(sel, "m1600")]),
    fivek    |-> TextsLater(fivekRows(sel)) ]

\* the content of the third page
content3(sel) ==
  [ selected |-> sel,
    rec      |-> recoveryPace(sel.pace.k5),
    steady   |-> steadyRange(sel.pace.k5),
    thr      |-> thresholdSplits(sel.pace.mile),
    power    |-> powerRunPace(sel.pace.twoMile),
    pred10k  |-> predict10kFrom5kSeconds(sel.pred.k5),
    recText  |-> formatPaceSeconds(recoveryPace(sel.pace.k5)),
    cvText   |-> TextsLater([m100 |-> sel.cv.m100, m1600 |-> cv1600From1200(sel)]),
    fivek    |-> TextsLater(fivekComputed(sel.pace.k5)) ]

\* a sheet row whose time cell in column k reads base + k seconds as m:ss,
\* so that every column holds a different time; the index is in column ix
GridRow(ix, index, base) ==
  [k \in 0..37 |-> IF k = ix THEN Str(index) ELSE Str(MinutesSeconds(base + k))]

\* the same row with nothing in column k
Blank(r, k) == [r EXCEPT ![k] = Str(<<>>)]

\* sheet rows of pace index 30, 31 and 33, and pace index 34 with nothing
\* in the columns 19, 25 and 26 (in the Pace Overview sheet: the threshold
\* pace read, the 1600 m CV rep and the 1600 m 5k repeat)
GridPool(ix) ==
  { GridRow(ix, <<"3", "0">>, 330), GridRow(ix, <<"3", "1">>, 270),
    GridRow(ix, <<"3", "3">>, 210),
    Blank(Blank(Blank(GridRow(ix, <<"3", "4">>, 150), 19), 25), 26) }

\* the artifacts the builders write from one to MaxSheet of these rows
ContentTables ==
  { buildVdot(all) : all \in SheetsOf(GridPool(11)) \ {<<>>} }
    \cup { buildOverview(Headings \o data) : data \in SheetsOf(GridPool(0)) \ {<<>>} }

\* query times around the predictions of the rows
ContentQueries == { N(0), N(185), N(245), N(305), N(400), N(650) }

InitContent ==
  /\ paces \in ContentTables
  /\ call = NoCall
  /\ ret = NoRet
  /\ page = 0

\* the content of a resolved row; a resolver that throws shows nothing
ContentOf(sel, c) == IF sel.status = "ok" THEN Returned(c) ELSE sel

Content1 ==
  /\ call.fn = "idle"
  /\ \E d \in Distances, q \in ContentQueries :
       /\ call' = [fn |-> "content1", d |-> d, arg |-> q]
       /\ ret' = ContentOf(findClosestRow(paces, d, q),
                           content1(findClosestRow(paces, d, q).val))
  /\ UNCHANGED <<paces, page>>

Content2 ==
  /\ call.fn = "idle"
  /\ \E d \in Distances, q \in ContentQueries :
       /\ call' = [fn |-> "content2", d |-> d, arg |-> q]
       /\ ret' = ContentOf(findClosestRowByTime(rows, d, q),
                           content2(findClosestRowByTime(rows, d, q).val))
  /\ UNCHANGED <<paces, page>>

Content3 ==
  /\ call.fn = "idle"
  /\ \E d \in Distances, q \in ContentQueries :
       /\ call' = [fn |-> "content3", d |-> d, arg |-> q]
       /\ ret' = ContentOf(pickInterpolatedRow(rows, d, q),
                           content3(pickInterpolatedRow(rows, d, q).val))
  /\ UNCHANGED <<paces, page>>

NextContent ==
  \/ Content1
  \/ Content2
  \/ Content3
  \/ Return

SpecContent == InitContent /\ [][NextContent]_vars

----------------------------------------------------------------------------
(* The table across a sequence of queries *)

\* page holds the module-level array rows of the second and third pages
\* and, as a history, the table as imported and one earlier query with its
\* result
NothingSeen == [call |-> NoCall, ret |-> NoRet]

\* mutant: the candidates are sorted by time in the array rows itself
rowsAfterPickSortedInPlace(rs, d) ==
  [i \in 1..Len(candidateList(rs, d)) |-> candidateList(rs, d)[i].r]

\* rows after pickInterpolatedRow: map and filter make a new array, and it
\* is that array which sort reorders
rowsAfterPick(rs, d) == rs

\* tables of up to two rows, in any order
PureTables == { t \in Tables : Len(t) <= 2 }

PureDistances == {"5k", "10k", "half"}

PureQueries == { N(0), N(3), Rat(9, 2) }

PurePIs == { N(30), Rat(65, 2) }

InitPure ==
  /\ paces \in PureTables
  /\ call = NoCall
  /\ ret = NoRet
  /\ page = [rows |-> SortByPaceIndex(paces), first |-> paces, seen |-> NothingSeen]

\* the first page resolves on the imported array itself
PureFindClosestRow ==
  /\ call.fn = "idle"
  /\ \E d \in PureDistances, q \in PureQueries :
       /\ call' = [fn |-> "findClosestRow", d |-> d, arg |-> q]
       /\ ret' = findClosestRow(paces, d, q)
  /\ UNCHANGED <<paces, page>>

PureFindClosestRowByTime ==
  /\ call.fn = "idle"
  /\ \E d \in PureDistances, q \in PureQueries :
       /\ call' = [fn |-> "findClosestRowByTime", d |-> d, arg |-> q]
       /\ ret' = findClosestRowByTime(page.rows, d, q)
  /\ UNCHANGED <<paces, page>>

PureFindRowByPI ==
  /\ call.fn = "idle"
  /\ \E pi \in PurePIs :
       /\ call' = [fn |-> "findRowByPI", d |-> "5k", arg |-> pi]
       /\ ret' = findRowByPI(page.rows, pi)
  /\ UNCHANGED <<paces, page>>

PurePickInterpolatedRow ==
  /\ call.fn = "idle"
  /\ \E d \in PureDistances, q \in PureQueries :
       /\ call' = [fn |-> "pickInterpolatedRow", d |-> d, arg |-> q]
       /\ ret' = pickInterpolatedRow(page.rows, d, q)
       /\ page' = [page EXCEPT !.rows = rowsAfterPick(page.rows, d)]
  /\ UNCHANGED paces

\* the call is over; the history keeps this query or the one it had
PureReturn ==
  /\ call.fn # "idle"
  /\ \E keep \in BOOLEAN :
       page' = [page EXCEPT !.seen = IF keep THEN @ ELSE [call |-> call, ret |-> ret]]
  /\ call' = NoCall
  /\ ret' = NoRet
  /\ UNCHANGED paces

NextPure ==
  \/ PureFindClosestRow
  \/ PureFindClosestRowByTime
  \/ PureFindRowByPI
  \/ PurePickInterpolatedRow
  \/ PureReturn

SpecPure == InitPure /\ [][NextPure]_vars

----------------------------------------------------------------------------
(* Properties of the resolvers *)

\* the stored prediction a distance is matched on (10k is derived from 5k)
StoredPrediction(r, d) == IF d = "10k" THEN r.pred.k5 ELSE getPredictionSeconds(r, d)

HasPrediction(r, d) == IsFinite(StoredPrediction(r, d))

\* |predicted - query| of a row that has a prediction
TimeDiff(r, d, q) == MathAbs(Sub(getPredictionSeconds(r, d), q))

\* rs[i] is the first row of rs nearest to q among the rows with a prediction
FirstNearest(rs, d, q, i) ==
  /\ HasPrediction(rs[i], d)
  /\ \A j \in 1..Len(rs) :
       HasPrediction(rs[j], d) =>
         /\ Le(TimeDiff(rs[i], d, q), TimeDiff(rs[j], d, q))
         /\ (TimeDiff(rs[j], d, q) = TimeDiff(rs[i], d, q) => i <= j)

\* the table a nearest-match resolver works on: the artifact as imported on
\* the first page, the sorted rows on the second
TableGiven == IF call.fn = "findClosestRow" THEN paces ELSE rows

NearestIn(rs) ==
  (\E j \in 1..Len(rs) : HasPrediction(rs[j], call.d)) =>
    /\ ret.status = "ok"
    /\ \E i \in 1..Len(rs) : ret.val = rs[i] /\ FirstNearest(rs, call.d, call.arg, i)

\* C1: nearest match by race time: on a non-empty table findClosestRow and
\* findClosestRowByTime return the first row, in iteration order, whose
\* predicted time for the distance is nearest to the query time (stated here
\* for the tables in which some row has a prediction for the distance).
C1_NearestMatch ==
  /\ call.fn = "findClosestRow" => NearestIn(paces)
  /\ call.fn = "findClosestRowByTime" => NearestIn(rows)

\* C28: a row with a missing prediction is never chosen over a row that has
\* one: on every table in which some row has a finite prediction for the
\* distance (other rows may store null for it), and for every query time,
\* the row returned by findClosestRow and by findClosestRowByTime has a
\* finite prediction for that distance.
C28_PredictionPresent ==
  ( /\ call.fn \in {"findClosestRow", "findClosestRowByTime"}
    /\ \E j \in 1..Len(TableGiven) : HasPrediction(TableGiven[j], call.d) ) =>
    /\ ret.status = "ok"
    /\ HasPrediction(ret.val, call.d)

PIDiff(r, pi) == MathAbs(Sub(r.paceIndex, pi))

ExactPI(rs, pi) == { i \in 1..Len(rs) : rs[i].paceIndex = pi }

FirstNearestPI(rs, pi, i) ==
  \A j \in 1..Len(rs) :
    /\ Le(PIDiff(rs[i], pi), PIDiff(rs[j], pi))
    /\ (PIDiff(rs[j], pi) = PIDiff(rs[i], pi) => i <= j)

\* C2: pace-index lookup: on a non-empty table findRowByPI returns the row
\* whose paceIndex equals pi when there is one, and otherwise the first row
\* in table order at minimum |paceIndex - pi|; a pi above every row returns
\* a row of the highest pace index, a pi below every row one of the lowest.
C2_PaceIndexLookup ==
  (call.fn = "findRowByPI" /\ Len(rows) > 0) =>
    /\ ret.status = "ok"
    /\ \E i \in 1..Len(rows) :
         /\ ret.val = rows[i]
         /\ ExactPI(rows, call.arg) # {} =>
              i \in ExactPI(rows, call.arg) /\ \A j \in ExactPI(rows, call.arg) : i <= j
         /\ ExactPI(rows, call.arg) = {} => FirstNearestPI(rows, call.arg, i)
    /\ (\A j \in 1..Len(rows) : Lt(rows[j].paceIndex, call.arg)) =>
         \A j \in 1..Len(rows) : Le(rows[j].paceIndex, ret.val.paceIndex)
    /\ (\A j \in 1..Len(rows) : Lt(call.arg, rows[j].paceIndex)) =>
         \A j \in 1..Len(rows) : Le(ret.val.paceIndex, rows[j].paceIndex)

\* a lookup with no exact match and two rows tied at the minimum distance,
\* answered by the earlier one
C2_Witness ==
  /\ call.fn = "findRowByPI"
  /\ ret.status = "ok"
  /\ ExactPI(rows, call.arg) = {}
  /\ \E i, j \in 1..Len(rows) :
       /\ i < j
       /\ ret.val = rows[i]
       /\ rows[i].paceIndex # rows[j].paceIndex
       /\ PIDiff(rows[i], call.arg) = PIDiff(rows[j], call.arg)

\* predicted times strictly decrease as pace index increases
StrictlyDecreasing(rs, d) ==
  /\ \A i \in 1..Len(rs) : HasPrediction(rs[i], d)
  /\ \A i, j \in 1..Len(rs) :
       Lt(rs[i].paceIndex, rs[j].paceIndex) =>
         Lt(getPredictionSeconds(rs[j], d), getPredictionSeconds(rs[i], d))

\* C5: nearest-match monotonicity: on a table whose predicted times strictly
\* decrease as pace index increases, the row resolved for a query time t1
\* has a predicted time no greater than that of the row resolved for any
\* later query time t2.
C5_NearestMonotone ==
  /\ (call.fn = "findClosestRow" /\ Len(paces) > 0 /\ StrictlyDecreasing(paces, call.d)) =>
       \A t2 \in QueryTimes :
         Lt(call.arg, t2) =>
           Le(getPredictionSeconds(ret.val, call.d),
              getPredictionSeconds(findClosestRow(paces, call.d, t2).val, call.d))
  /\ (call.fn = "findClosestRowByTime" /\ Len(rows) > 0 /\ StrictlyDecreasing(rows, call.d)) =>
       \A t2 \in QueryTimes :
         Lt(call.arg, t2) =>
           Le(getPredictionSeconds(ret.val, call.d),
              getPredictionSeconds(findClosestRowByTime(rows, call.d, t2).val, call.d))

\* a strictly decreasing table of three different rows and a query resolved
\* to a strictly faster row than some later query
C5_Witness ==
  /\ call.fn = "findClosestRowByTime"
  /\ Len(rows) = 3
  /\ StrictlyDecreasing(rows, call.d)
  /\ Lt(rows[1].paceIndex, rows[2].paceIndex) /\ Lt(rows[2].paceIndex, rows[3].paceIndex)
  /\ \E t2 \in QueryTimes :
       /\ Lt(call.arg, t2)
       /\ Lt(getPredictionSeconds(ret.val, call.d),
             getPredictionSeconds(findClosestRowByTime(rows, call.d, t2).val, call.d))

\* C6: no operation is fatal: no resolver call raises an exception, whatever
\* the table (empty, one row, no finite prediction) and the query.
C6_NeverThrows == ret.status # "throw"

\* the candidate list holds the rows with a finite predicted time, fastest first
CandidatesSorted(list, rs, d) ==
  /\ \A i, j \in 1..Len(list) : i < j => Le(list[i].t, list[j].t)
  /\ \A i \in 1..Len(list) : list[i].t = getPredictionSeconds(list[i].r, d)
  /\ { list[i].r : i \in 1..Len(list) }
       = { rs[i] : i \in { j \in 1..Len(rs) : IsFinite(getPredictionSeconds(rs[j], d)) } }
  /\ Len(list) = Cardinality({ j \in 1..Len(rs) : IsFinite(getPredictionSeconds(rs[j], d)) })

\* the blend of candidates a and b at t = (query - a.time) / (b.time - a.time)
BlendAt(a, b, q) == Returned(blendRow(a.r, b.r, Div(Sub(q, a.t), Sub(b.t, a.t))))

\* C3: interpolation regimes: the candidates being sorted ascending by
\* predicted time, pickInterpolatedRow blends the two fastest rows when the
\* query is at or below the fastest time, the two slowest rows when it is at
\* or above the slowest time, and otherwise an adjacent pair (a, b) with
\* a.time <= query <= b.time, always at t = (query - a.time) / (b.time - a.time).
C3_InterpolationRegimes ==
  LET list == candidateList(rows, call.d)
      n    == Len(list)
  IN  (call.fn = "pickInterpolatedRow" /\ n >= 2) =>
        /\ CandidatesSorted(list, rows, call.d)
        /\ Le(call.arg, list[1].t) => ret = BlendAt(list[1], list[2], call.arg)
        /\ Ge(call.arg, list[n].t) => ret = BlendAt(list[n - 1], list[n], call.arg)
        /\ (Lt(list[1].t, call.arg) /\ Lt(call.arg, list[n].t)) =>
             \E i \in 1..(n - 1) :
               /\ Le(list[i].t, call.arg)
               /\ Le(call.arg, list[i + 1].t)
               /\ ret = BlendAt(list[i], list[i + 1], call.arg)

\* three candidates with different times and a query strictly inside the
\* second pair: the blend lies strictly between the two slower rows
C3_Witness ==
  LET list == candidateList(rows, call.d)
  IN  /\ call.fn = "pickInterpolatedRow"
      /\ Len(list) = 3
      /\ Lt(list[1].t, list[2].t)
      /\ Lt(list[2].t, call.arg)
      /\ Lt(call.arg, list[3].t)
      /\ ret = BlendAt(list[2], list[3], call.arg)
      /\ ret # BlendAt(list[1], list[2], call.arg)

\* the numeric fields of x equal those of row r (null read as the number 0)
SameValues(x, r) ==
  /\ ToNumber(x.paceIndex) = ToNumber(r.paceIndex)
  /\ \A f \in DOMAIN r.pred    : ToNumber(x.pred[f]) = ToNumber(r.pred[f])
  /\ \A f \in DOMAIN r.pace    : ToNumber(x.pace[f]) = ToNumber(r.pace[f])
  /\ \A f \in DOMAIN x.cv      : ToNumber(x.cv[f]) = ToNumber(r.cv[f])
  /\ \A f \in DOMAIN r.speed2m : ToNumber(x.speed2m[f]) = ToNumber(r.speed2m[f])

\* C4: interpolation boundary: a query time equal to a table row's predicted
\* time makes pickInterpolatedRow return that row's paceIndex, pred, pace,
\* cv and speed2m values (stated here for tables with at least two candidate
\* rows).
C4_BoundaryReturnsRow ==
  LET list == candidateList(rows, call.d)
      hits == { i \in 1..Len(list) : list[i].t = call.arg }
  IN  (call.fn = "pickInterpolatedRow" /\ Len(list) >= 2 /\ hits # {}) =>
        /\ ret.status = "ok"
        /\ \E i \in hits : SameValues(ret.val, list[i].r)

----------------------------------------------------------------------------
(* Properties of the parsers *)

\* the decimal value of a string of digits, by place value
RECURSIVE PlaceValue(_)
PlaceValue(f) ==
  IF f = <<>> THEN 0
  ELSE DigitValue(Head(f)) * Pow10(Len(f) - 1) + PlaceValue(Tail(f))

\* a part made of digits only (white space around it aside)
DigitPart(f) == Trim(f) # <<>> /\ \A i \in 1..Len(Trim(f)) : Trim(f)[i] \in Digits

\* a part that reads as a number
NumericPart(f) == Trim(f) # <<>> /\ ~IsNaN(Number(f))

\* C8: query time grammar: parseTimeToSeconds yields a number only for
\* mm:ss or h:mm:ss with digits-only fields; a field with a sign, a decimal
\* point, an exponent or another non-digit character, an empty field, a bare
\* number and four or more fields yield null.
C8_QueryGrammar ==
  call.fn \in {"parseTimeToSeconds", "parseTimeToSecondsRounded"} =>
    IF Len(call.parts) \in {2, 3} /\ \A i \in 1..Len(call.parts) : DigitPart(call.parts[i])
    THEN IsFinite(ret.val)
    ELSE ret.val = Null

\* C9: for a cell "mm:ss" of two numeric parts, parseMsCsToSeconds and
\* parseHmsToSeconds return exactly 60*mm + ss ("18:05" gives 1085).
C9_MinutesSeconds ==
  (call.fn \in {"parseMsCsToSeconds", "parseHmsToSeconds"} /\ Len(call.parts) = 2) =>
    LET mm == call.parts[1]
        ss == call.parts[2]
    IN  /\ (DigitPart(mm) /\ DigitPart(ss)) =>
             ret.val = N(60 * PlaceValue(Trim(mm)) + PlaceValue(Trim(ss)))
        /\ (NumericPart(mm) /\ NumericPart(ss)) =>
             ret.val = Add(Mul(N(60), Number(mm)), Number(ss))

\* the cell "18:05" normalized to 1085 s
C9_Witness ==
  /\ call.fn = "parseMsCsToSeconds"
  /\ call.arg = Str(<<"1", "8", ":", "0", "5">>)
  /\ ret.val = N(1085)

\* C10: for a cell "mm:ss:cc" of three numeric parts, parseMsCsToSeconds
\* returns 60*mm + ss + cc/100: the third part is hundredths of a second and
\* the first is never hours.
C10_MinutesSecondsCentis ==
  (call.fn = "parseMsCsToSeconds" /\ Len(call.parts) = 3) =>
    LET mm == call.parts[1]
        ss == call.parts[2]
        cc == call.parts[3]
    IN  /\ (DigitPart(mm) /\ DigitPart(ss) /\ DigitPart(cc)) =>
             ret.val = Rat(100 * (60 * PlaceValue(Trim(mm)) + PlaceValue(Trim(ss)))
                             + PlaceValue(Trim(cc)), 100)
        /\ (NumericPart(mm) /\ NumericPart(ss) /\ NumericPart(cc)) =>
             ret.val = Add(Add(Mul(N(60), Number(mm)), Number(ss)),
                           Div(Number(cc), N(100)))

\* the cell "5:18:05" normalized to 318.05 s
C10_Witness ==
  /\ call.fn = "parseMsCsToSeconds"
  /\ call.arg = Str(<<"5", ":", "1", "8", ":", "0", "5">>)
  /\ ret.val = Rat(31805, 100)

----------------------------------------------------------------------------
(* Properties of the page *)

\* the text of the active input
ActiveText == IF page.inputMode = "pi" THEN page.piStr ELSE page.timeStr

\* a text of letters only, such as "abc"
Word(s) == s # <<>> /\ \A i \in 1..Len(s) : s[i] \in {"a", "b", "c"}

\* a well-formed text: digits for a pace index; mm:ss or h:mm:ss for a time
WellFormed(s) ==
  IF page.inputMode = "pi" THEN DigitPart(s)
  ELSE \E fs \in UNION { [1..n -> {<<"0">>, <<"0", "0">>, <<"0", "3">>}]
                           : n \in {2, 3} } : s = JoinParts(fs)

\* C7: the selection is absent exactly when the input parses to nothing:
\* after any input events the selected row is null when the active text is
\* empty, white space or malformed ("abc"), and is one row of the table
\* otherwise; a malformed text raises no error.
C7_SelectionAbsentIffUnparsed ==
  /\ (Trim(ActiveText) = <<>> \/ Word(ActiveText)) => page.selected = NoSelection
  /\ WellFormed(ActiveText) =>
       /\ page.selected.status = "ok"
       /\ \E i \in 1..Len(rows) : page.selected.val = rows[i]

----------------------------------------------------------------------------
(* Properties of the h:mm:ss parsers and of the builders *)

\* three digit parts h, mm, ss with h >= 1, and the seconds they stand for
ValidHms(fs) ==
  /\ Len(fs) = 3
  /\ \A i \in 1..3 : DigitPart(fs[i])
  /\ PlaceValue(Trim(fs[1])) >= 1

HmsValue(fs) ==
  N(3600 * PlaceValue(Trim(fs[1])) + 60 * PlaceValue(Trim(fs[2])) + PlaceValue(Trim(fs[3])))

\* three numeric parts with h >= 1
NumericHms(fs) ==
  /\ Len(fs) = 3
  /\ \A i \in 1..3 : NumericPart(fs[i])
  /\ Le(N(1), Number(fs[1]))

Building == call.fn \in {"buildVdot", "buildOverview"}

\* the sheet row that the written row x was made from (id is its position)
SourceRow(x) ==
  IF call.fn = "buildVdot" THEN vdotRows(call.arg)[x.id + 1]
  ELSE overviewRows(call.arg)[x.id + 1]

\* the columns of the half and the marathon prediction in each sheet
HalfColumn == IF call.fn = "buildVdot" THEN 6 ELSE 5

MarathonColumn == IF call.fn = "buildVdot" THEN 7 ELSE 6

Unparseable(fs) ==
  /\ Len(fs) >= 2
  /\ \/ \E i \in 1..Len(fs) : ~NumericPart(fs[i])
     \/ Len(fs) > 3

\* C12: a null, undefined or blank cell, and a colon-separated cell with a
\* part that is not numeric (an empty part such as "18:" included) or with
\* more than three parts, is normalized to null by parseMsCsToSeconds and
\* parseHmsToSeconds: never a number, never an exception.
C12_UnparseableIsNull ==
  ( /\ call.fn \in {"parseMsCsToSeconds", "parseHmsToSeconds"}
    /\ \/ call.arg[1] \in {"undef", "null"}
       \/ Trim(call.arg[2]) = <<>>
       \/ Unparseable(call.parts) ) =>
    ret = Returned(Null)

\* C13: every row a builder writes has a finite 5k prediction and a finite
\* 5k race pace; a sheet row lacking either is dropped.
C13_RetentionGate ==
  Building =>
    \A i \in 1..Len(ret.val) :
      IsFinite(ret.val[i].pred.k5) /\ IsFinite(ret.val[i].pace.k5)

\* C14: in the table a builder writes, every paceIndex is an integer and no
\* two rows have the same paceIndex, whatever the sheet rows are.
C14_PaceIndexUniqueInteger ==
  Building =>
    /\ \A i \in 1..Len(ret.val) :
         ret.val[i].paceIndex[1] = "num" /\ ret.val[i].paceIndex[3] = 1
    /\ \A i, j \in 1..Len(ret.val) :
         i # j => ret.val[i].paceIndex # ret.val[j].paceIndex

\* the values of one group of time fields
FieldValues(group) == { group[f] : f \in DOMAIN group }

\* the time fields of a written row
StoredTimes(x) ==
  FieldValues(x.pred) \cup FieldValues(x.pace) \cup FieldValues(x.cv)
    \cup FieldValues(x.speed2m)
    \cup (IF "thresholdPace" \in DOMAIN x THEN {x.thresholdPace} ELSE {})
    \cup (IF "fivekRepeats" \in DOMAIN x THEN FieldValues(x.fivekRepeats) ELSE {})

\* a whole number of seconds, zero or more
WholeSeconds(v) == v[1] = "num" /\ v[3] = 1 /\ v[2] >= 0

\* C15: every time field a builder writes is null (the cell parsed to null)
\* or a whole number of seconds >= 0, the parsed seconds of a cell of the
\* sheet row rounded to the nearest integer.
C15_StoredTimesWhole ==
  Building =>
    \A i \in 1..Len(ret.val) : \A v \in StoredTimes(ret.val[i]) :
      /\ v = Null \/ WholeSeconds(v)
      /\ \E k \in 0..37 :
           v \in { whole(parseMsCsToSeconds(SourceRow(ret.val[i])[k])),
                   whole(parseHmsToSeconds(SourceRow(ret.val[i])[k])) }

\* the fields of a written row that hold a short split or a pace
ShortSplits(x) ==
  FieldValues(x.pace) \cup FieldValues(x.cv) \cup FieldValues(x.speed2m)
    \cup (IF "fivekRepeats" \in DOMAIN x THEN FieldValues(x.fivekRepeats) ELSE {})

\* C22: defensive centisecond re-scaling: a race pace, critical-velocity
\* rep, 5k repeat or 2-mile repeat that parses above 2000 s is divided by
\* 100 before it is stored, so no such field of a written row exceeds 2000.
C22_ShortSplitsRescaled ==
  Building =>
    \A i \in 1..Len(ret.val) : \A v \in ShortSplits(ret.val[i]) :
      v = Null \/ Le(v, N(2000))

\* the column that the column map of the Pace Overview builder documents as
\* Threshold Pace
ThresholdColumn == 13

\* C25: the Pace Overview builder stores, as each row's thresholdPace, the
\* rounded parse of the cell in the column that its own column map documents
\* as Threshold Pace (0-based index 13).
C25_ThresholdColumn ==
  call.fn = "buildOverview" =>
    \A i \in 1..Len(ret.val) :
      ret.val[i].thresholdPace
        = whole(parseMsCsToSeconds(SourceRow(ret.val[i])[ThresholdColumn]))

----------------------------------------------------------------------------
(* Properties of the derived paces *)

\* a page shows the content of a resolved row
Showing == call.fn \in {"content1", "content2", "content3"} /\ ret.status = "ok"

WholeNumber(v) == v[1] = "num" /\ v[3] = 1

\* C16: for every resolved row, on every page, recovery is the 5k pace plus
\* 110 s, the steady range is the 5k pace plus 60 s to plus 75 s, and the
\* power-run pace is the 2-mile pace plus 30 s; a 5k pace of 340 gives the
\* recovery pace 450, shown as 7:30.
C16_FixedOffsets ==
  Showing =>
    /\ WholeNumber(ret.val.selected.pace.k5) =>
         /\ ret.val.rec = N(ret.val.selected.pace.k5[2] + 110)
         /\ ret.val.steady = [low  |-> N(ret.val.selected.pace.k5[2] + 60),
                              high |-> N(ret.val.selected.pace.k5[2] + 75)]
    /\ WholeNumber(ret.val.selected.pace.twoMile) =>
         ret.val.power = N(ret.val.selected.pace.twoMile[2] + 30)
    /\ ret.val.selected.pace.k5 = N(340) =>
         ret.val.rec = N(450) /\ ret.val.recText = <<"7", ":", "3", "0">>

\* the second page shows recovery 7:30 for a row of 5k pace 340
C16_Witness ==
  /\ call.fn = "content2"
  /\ ret.status = "ok"
  /\ ret.val.selected.pace.k5 = N(340)
  /\ ret.val.recText = <<"7", ":", "3", "0">>

\* the threshold pace of a row: its thresholdPace when present, else its
\* mile race pace
ThresholdPace(r) ==
  IF "thresholdPace" \in DOMAIN r /\ r.thresholdPace # Null THEN r.thresholdPace
  ELSE r.pace.mile

\* C17: for every resolved row, on every page, the threshold pace is the
\* row's thresholdPace when present and its mile race pace otherwise, and
\* the 400 m and 100 m splits are that pace times 400/1609.344 and
\* 100/1609.344.
C17_ThresholdDerivation ==
  (Showing /\ WholeNumber(ThresholdPace(ret.val.selected))) =>
    ret.val.thr =
      [ pace |-> ThresholdPace(ret.val.selected),
        m400 |-> Mul(ThresholdPace(ret.val.selected), Rat(400000, 1609344)),
        m100 |-> Mul(ThresholdPace(ret.val.selected), Rat(100000, 1609344)) ]

\* 2^1.06 to three decimal places
TwoToThe106 == Rat(2085, 1000)

\* the row the page of the call resolves for distance d and time q
Resolved(d, q) ==
  CASE call.fn = "content1" -> findClosestRow(paces, d, q)
    [] call.fn = "content2" -> findClosestRowByTime(rows, d, q)
    [] call.fn = "content3" -> pickInterpolatedRow(rows, d, q)

\* the 10k is derived from the 5k prediction and never stored: the 10k time
\* shown is pred.k5 * 2^1.06, a 10k query resolves as the 5k query of that
\* time divided by 2^1.06 does, and the rows have no 10k field
TenKDerived ==
  /\ \A i \in 1..Len(paces) :
       /\ DOMAIN paces[i].pred = {"m800", "mile", "twoMile", "k5", "half", "marathon"}
       /\ DOMAIN paces[i] \subseteq {"id", "paceIndex", "label", "pred", "pace", "cv",
                                    "speed2m", "thresholdPace", "fivekRepeats"}
  /\ Showing => ret.val.pred10k = Mul(ret.val.selected.pred.k5, TwoToThe106)
  /\ (call.fn \in {"content1", "content2", "content3"} /\ call.d = "10k") =>
       \/ ret.status = "throw" /\ Resolved("5k", Div(call.arg, TwoToThe106)).status = "throw"
       \/ /\ ret.status = "ok"
          /\ Resolved("5k", Div(call.arg, TwoToThe106)) = Returned(ret.val.selected)

\* predict10k(1200) to the nearest second
TenKOf1200 == MathRound(predict10kFrom5kSeconds(N(1200)))

\* C18 (as amended): the 10k is always pred.k5 * 2^1.06, for matching and
\* for display, and no row stores a 10k field; predict10k(1200) is
\* 1200 * 2^1.06, about 2502 s.
C18_TenKDerived == TenKDerived /\ TenKOf1200 = N(2502)

\* C18 (as stated): the same, with predict10k(1200) about 2536 s (to
\* within five seconds).
C18_TenKAbout2536 ==
  TenKDerived /\ Le(MathAbs(Sub(TenKOf1200, N(2536))), N(5))

\* the third page resolved a 10k query to a row and shows its 10k
C18_Witness ==
  /\ call.fn = "content3"
  /\ call.d = "10k"
  /\ ret.status = "ok"
  /\ IsFinite(ret.val.pred10k)
  /\ ret.val.pred10k = Mul(ret.val.selected.pred.k5, TwoToThe106)

----------------------------------------------------------------------------
(* Properties of the table across queries *)

TablePassed == IF call.fn = "findClosestRow" THEN paces ELSE rows

\* C20: on every page the table passed to the resolver is sorted ascending
\* by paceIndex, whatever the order of the rows in the artifact, so that
\* among equally near rows the one of lower pace index is returned.
C20_SortedTablePassed ==
  call.fn \in {"findClosestRow", "findClosestRowByTime", "findRowByPI", "pickInterpolatedRow"} =>
    /\ \A i, j \in 1..Len(TablePassed) :
         i < j => Le(TablePassed[i].paceIndex, TablePassed[j].paceIndex)
    /\ (call.fn \in {"findClosestRow", "findClosestRowByTime"} /\ ret.status = "ok") =>
         \A i \in 1..Len(TablePassed) :
           TimeDiff(TablePassed[i], call.d, call.arg) = TimeDiff(ret.val, call.d, call.arg)
             => Le(ret.val.paceIndex, TablePassed[i].paceIndex)

----------------------------------------------------------------------------
(* Properties of the blend *)

\* the groups of numeric fields of a row
FieldGroups == {"pred", "pace", "cv", "speed2m"}

\* round(x + (y - x) * t)
Mix(x, y, t) == MathRound(Add(x, Mul(Sub(y, x), t)))

\* the pair of candidates pickInterpolatedRow blends: the index of its first row
PairIndex(list, q) ==
  IF Le(q, list[1].t) THEN 1
  ELSE IF Ge(q, list[Len(list)].t) THEN Len(list) - 1
  ELSE bracketIndex(list, q, 1)

\* x is the blend of rows a and b at t, field by field
Blended(x, a, b, t) ==
  /\ x.id = -1
  /\ x.paceIndex = Mix(a.paceIndex, b.paceIndex, t)
  /\ \A g \in FieldGroups :
       /\ DOMAIN x[g] = DOMAIN a[g]
       /\ \A f \in DOMAIN a[g] : x[g][f] = Mix(a[g][f], b[g][f], t)

\* C21: the blend is uniform and independently rounded: the row returned by
\* pickInterpolatedRow for the pair (a, b) and the blend parameter t has
\* paceIndex and every pred, pace, cv and speed2m field f equal to
\* round(a.f + (b.f - a.f) * t), with the same t for all fields, and has
\* id = -1, which no row of the table carries (the builders' ids are the
\* non-negative row positions).
C21_BlendUniform ==
  LET list == candidateList(rows, call.d)
      i    == PairIndex(list, call.arg)
  IN  (call.fn = "pickInterpolatedRow" /\ Len(list) >= 2) =>
        /\ ret.status = "ok"
        /\ i > 0
        /\ Blended(ret.val, list[i].r, list[i + 1].r,
                   Div(Sub(call.arg, list[i].t), Sub(list[i + 1].t, list[i].t)))
        /\ \A k \in 1..Len(rows) : rows[k].id >= 0 /\ rows[k].id # ret.val.id

\* a blend strictly inside a pair of rows whose pace indexes differ, at a t
\* for which the unrounded pace index is not a whole number
C21_Witness ==
  LET list == candidateList(rows, call.d)
      i    == PairIndex(list, call.arg)
  IN  /\ call.fn = "pickInterpolatedRow"
      /\ Len(list) >= 2
      /\ ret.status = "ok"
      /\ Lt(list[i].t, call.arg)
      /\ Lt(call.arg, list[i + 1].t)
      /\ list[i].r.paceIndex # list[i + 1].r.paceIndex
      /\ Add(list[i].r.paceIndex,
             Mul(Sub(list[i + 1].r.paceIndex, list[i].r.paceIndex),
                 Div(Sub(call.arg, list[i].t), Sub(list[i + 1].t, list[i].t))))[3] # 1
      /\ ret.val.id = -1

----------------------------------------------------------------------------
(* Properties of the repeats shown *)

\* the text a page shows for a time
Shown(v) == IF call.fn = "content1" THEN formatSeconds(v) ELSE formatRaceTimeSeconds(v)

\* a stored value that is there: neither null nor a missing field
Present(v) == ~IsNullish(v)

ZeroText == <<"0", ":", "0", "0">>

\* C23: critical-velocity fallbacks: for every resolved row the 100 m CV rep
\* shown is the stored cv.m100 when present and otherwise cv.m400 / 4, the
\* 1600 m CV rep shown is the stored cv.m1600 when present and otherwise
\* cv.m1200 * (1600 / 1200), and a missing stored value is never shown as
\* zero (0:00 is shown only for a derived value that rounds to zero).
C23_CvFallbacks ==
  Showing =>
    /\ ret.val.cvText.m100
         = Shown(IF Present(cvOf(ret.val.selected, "m100"))
                 THEN ret.val.selected.cv.m100
                 ELSE Div(ret.val.selected.cv.m400, N(4)))
    /\ ret.val.cvText.m1600
         = Shown(IF Present(cvOf(ret.val.selected, "m1600"))
                 THEN ret.val.selected.cv.m1600
                 ELSE Mul(ret.val.selected.cv.m1200, Rat(1600, 1200)))
    /\ ( /\ ~Present(cvOf(ret.val.selected, "m100"))
         /\ ret.val.cvText.m100 = ZeroText ) =>
         Shown(Div(ret.val.selected.cv.m400, N(4))) = ZeroText
    /\ ( /\ ~Present(cvOf(ret.val.selected, "m1600"))
         /\ ret.val.cvText.m1600 = ZeroText ) =>
         Shown(Mul(ret.val.selected.cv.m1200, Rat(1600, 1200))) = ZeroText

\* the distances of the 5k repeats, by field
RepeatMeters ==
  [m100 |-> 100, m400 |-> 400, m800 |-> 800, m1000 |-> 1000, m1200 |-> 1200, m1600 |-> 1600]

\* the stored 5k repeat of a row; undefined in a row without fivekRepeats
StoredRepeat(sel, f) ==
  IF "fivekRepeats" \in DOMAIN sel THEN sel.fivekRepeats[f] ELSE Undefined

\* pace.k5 * meters / 1609.344
DerivedRepeat(sel, f) == Div(Mul(sel.pace.k5, N(RepeatMeters[f])), Rat(201168, 125))

\* C24: 5k-repeat provenance: for every resolved row and each of the
\* distances 100, 400, 800, 1000, 1200 and 1600 m, the 5k repeat shown is the
\* stored fivekRepeats value when that value is present and otherwise
\* pace.k5 * meters / 1609.344; a stored value is never replaced by the
\* derived one and a missing value is never shown as zero (0:00 is shown
\* only for a derived value that rounds to zero).
C24_FivekProvenance ==
  Showing =>
    /\ DOMAIN ret.val.fivek = DOMAIN RepeatMeters
    /\ \A f \in DOMAIN RepeatMeters :
         /\ ret.val.fivek[f]
              = Shown(IF Present(StoredRepeat(ret.val.selected, f))
                      THEN StoredRepeat(ret.val.selected, f)
                      ELSE DerivedRepeat(ret.val.selected, f))
         /\ ( /\ ~Present(StoredRepeat(ret.val.selected, f))
              /\ ret.val.fivek[f] = ZeroText ) =>
              Shown(DerivedRepeat(ret.val.selected, f)) = ZeroText

----------------------------------------------------------------------------
(* Properties of the interpolation *)

\* the numeric fields of a row
NumericFields(x) ==
  {x.paceIndex} \cup UNION { FieldValues(x[g]) : g \in FieldGroups }

\* C26: blended rows are always finite: for every table with at least two
\* rows that have a finite prediction for the distance (two rows sharing a
\* predicted time included) and every finite query time, every numeric field
\* of the row returned by pickInterpolatedRow is a finite integer, and the
\* blend parameter is never computed with a zero denominator.
C26_BlendFinite ==
  LET list == candidateList(rows, call.d)
      i    == PairIndex(list, call.arg)
  IN  (call.fn = "pickInterpolatedRow" /\ Len(list) >= 2) =>
        /\ ret.status = "ok"
        /\ \A v \in NumericFields(ret.val) : WholeNumber(v)
        /\ i > 0 => Sub(list[i + 1].t, list[i].t) # N(0)

\* v lies between x and y, inclusive (null read as the number 0)
Between(v, x, y) ==
  \/ Le(x, v) /\ Le(v, y)
  \/ Le(y, v) /\ Le(v, x)

\* every numeric field of x lies between those of rows a and b
WithinPair(x, a, b) ==
  /\ Between(x.paceIndex, a.paceIndex, b.paceIndex)
  /\ \A g \in FieldGroups : \A f \in DOMAIN x[g] : Between(x[g][f], a[g][f], b[g][f])

====
